---- MODULE Spec2Model ----
(***************************************************************************)
(* IntSar-3D: the renderer's event dispatch loop (src/src/renderer.rs) and *)
(* the scene container (src/src/scene.rs).                                 *)
(*                                                                         *)
(* Angles are f32 radians in the source; here they are integers counting   *)
(* milliradians.  The elapsed time (Instant::elapsed().as_secs_f32()) is   *)
(* an integer counting milliseconds, so that one second of elapsed time is *)
(* the angle 1000, as in `cube_rotation.y = elapsed`.                      *)
(*                                                                         *)
(* The rounding of the f32 additions is modelled apart (FloatSpec): there  *)
(* an angle is an integer counting 2^-28 radians and every addition is     *)
(* rounded to 24 significant bits, ties to even, as IEEE-754 binary32.     *)
(***************************************************************************)
EXTENDS Integers, Sequences, FiniteSets, TLC

\* ---------------------------------------------------------------- bounds
\* frame updates explored with every event of the loop enabled
MaxFrames == 2
\* frame updates explored while the keys are held unchanged (HeldSpec)
MaxHeldFrames == 60
\* frame updates explored around the request to exit (ExitSpec)
MaxExitFrames == 1
\* the clock stops advancing at this many milliseconds
MaxElapsed == 7000
\* milliseconds the clock advances in one step
TickMs == 7000
\* objects a scene holds at most
MaxObjects == 3
\* frame updates explored with f32 rounding (FloatSpec)
MaxFloatFrames == 3
\* whole seconds of elapsed time explored with f32 rounding (FloatSpec)
MaxFloatSeconds == 2

\* ------------------------------------------------------ program constants
\* let rotation_speed = 2.0 * 0.016, in milliradians
rotation_speed == 32
\* the same f32 value 2.0 * 0.016 = 0x1.0624de p-5, counted in 2^-28 radians
rotation_speed_f32 == 8589935

\* --------------------------------------------------------------- domains
KeyCodes == {"KeyW", "KeyA", "KeyS", "KeyD", "KeyQ", "Unidentified"}
ElementStates == {"Pressed", "Released"}
\* inner sizes the window reports: <<width, height>>
Sizes == {<<800, 600>>, <<640, 640>>, <<800, 0>>, <<0, 600>>}
InitialSize == <<800, 600>>

VARIABLES
    keys_pressed,     \* Renderer.keys_pressed: KeyboardState {w, a, s, d}
    cube_rotation,    \* Renderer.cube_rotation: Vec3 {x, y, z}
    clock,            \* milliseconds since Renderer.start_time
    window_size,      \* window.inner_size()
    surface_config,   \* the SurfaceConfiguration the surface was last configured with
    uniform_buffer,   \* contents of Renderer.uniform_buffer
    exiting,          \* target.exit() was called
    running,          \* event_loop.run() has not returned
    frames,           \* number of update_and_render calls so far
    dispatched,       \* what the last step did: the event the closure of run()
                      \* handled, with its effects, or the passing of time
    objects,          \* Scene.objects
    scene_call,       \* the Scene method called last, with its result
    matrix_call,      \* the Transform::matrix call made last, with its result
    rotation_f32,     \* Renderer.cube_rotation as f32 values, in 2^-28 radians
    float_call        \* the frame update applied last to rotation_f32

renderer_vars == <<keys_pressed, cube_rotation, clock, window_size, surface_config,
                   uniform_buffer, exiting, running, frames, dispatched>>
scene_vars == <<objects, scene_call, matrix_call>>
float_vars == <<rotation_f32, float_call>>
vars == <<keys_pressed, cube_rotation, clock, window_size, surface_config,
          uniform_buffer, exiting, running, frames, dispatched,
          objects, scene_call, matrix_call, rotation_f32, float_call>>

\* ------------------------------------------------------------- renderer
KeyboardState_default == [w |-> FALSE, a |-> FALSE, s |-> FALSE, d |-> FALSE]

Vec3_ZERO == [x |-> 0, y |-> 0, z |-> 0]

RECURSIVE Gcd(_, _)
Gcd(a, b) == IF b = 0 THEN a ELSE Gcd(b, a % b)

\* width as f32 / height as f32: the quotient as a fraction in lowest terms;
\* IEEE-754 division by zero gives +inf (1/0) and 0/0 gives NaN (0/0)
AspectRatio(size) ==
    IF size[2] = 0
    THEN [num |-> IF size[1] = 0 THEN 0 ELSE 1, den |-> 0]
    ELSE [num |-> size[1] \div Gcd(size[1], size[2]),
          den |-> size[2] \div Gcd(size[1], size[2])]

\* Uniforms::new(): the identity matrix
Uniforms_new == [identity |-> TRUE, rotation |-> Vec3_ZERO, aspect |-> [num |-> 1, den |-> 1]]

\* projection * view * model: the matrix is kept as the values it is built from
\* (the camera and the projection's other parameters are fixed)
Mvp(rotation, aspect) == [identity |-> FALSE, rotation |-> rotation, aspect |-> aspect]

\* mutant of ManualRotation: the increment is 2.0 / 60 (33 milliradians)
ManualRotation_sixtieth(rotation, keys) ==
    LET x1 == IF keys.w THEN rotation.x - 33 ELSE rotation.x
        x2 == IF keys.s THEN x1 + 33 ELSE x1
        y1 == IF keys.a THEN rotation.y - 33 ELSE rotation.y
        y2 == IF keys.d THEN y1 + 33 ELSE y1
    IN  [rotation EXCEPT !.x = x2, !.y = y2]

\* mutant of ManualRotation: an if / else-if chain, the first held key wins
ManualRotation_else_if(rotation, keys) ==
    IF keys.w THEN [rotation EXCEPT !.x = rotation.x - rotation_speed]
    ELSE IF keys.s THEN [rotation EXCEPT !.x = rotation.x + rotation_speed]
    ELSE IF keys.a THEN [rotation EXCEPT !.y = rotation.y - rotation_speed]
    ELSE IF keys.d THEN [rotation EXCEPT !.y = rotation.y + rotation_speed]
    ELSE rotation

\* mutant of ManualRotation: left and right turn the cube about z
ManualRotation_roll(rotation, keys) ==
    LET x1 == IF keys.w THEN rotation.x - rotation_speed ELSE rotation.x
        x2 == IF keys.s THEN x1 + rotation_speed ELSE x1
        z1 == IF keys.a THEN rotation.z - rotation_speed ELSE rotation.z
        z2 == IF keys.d THEN z1 + rotation_speed ELSE z1
    IN  [rotation EXCEPT !.x = x2, !.z = z2]

\* the four `if self.keys_pressed.*` statements of update_and_render
ManualRotation(rotation, keys) ==
    LET x1 == IF keys.w THEN rotation.x - rotation_speed ELSE rotation.x
        x2 == IF keys.s THEN x1 + rotation_speed ELSE x1
        y1 == IF keys.a THEN rotation.y - rotation_speed ELSE rotation.y
        y2 == IF keys.d THEN y1 + rotation_speed ELSE y1
    IN  [rotation EXCEPT !.x = x2, !.y = y2]

\* mutant of AutoRotate: only the keys of the y axis are tested
AutoRotate_y_keys(rotation, keys, elapsed) ==
    IF ~keys.a /\ ~keys.d
    THEN [rotation EXCEPT !.y = elapsed]
    ELSE rotation

\* mutant of AutoRotate: the elapsed time is written to x
AutoRotate_x(rotation, keys, elapsed) ==
    IF ~keys.w /\ ~keys.a /\ ~keys.s /\ ~keys.d
    THEN [rotation EXCEPT !.x = elapsed]
    ELSE rotation

\* mutant of AutoRotate: the angle is wrapped to [0, 2 pi)
AutoRotate_wrapped(rotation, keys, elapsed) ==
    IF ~keys.w /\ ~keys.a /\ ~keys.s /\ ~keys.d
    THEN [rotation EXCEPT !.y = elapsed % 6283]
    ELSE rotation

\* "Auto-rotate if no keys pressed"
AutoRotate(rotation, keys, elapsed) ==
    IF ~keys.w /\ ~keys.a /\ ~keys.s /\ ~keys.d
    THEN [rotation EXCEPT !.y = elapsed]
    ELSE rotation

\* mutant of resize: the guard is `width == 0 && height == 0`
resize_both_zero(config, new_size) ==
    IF new_size[1] = 0 /\ new_size[2] = 0
    THEN config
    ELSE [width |-> new_size[1], height |-> new_size[2]]

\* Renderer::resize: the configuration of the surface after resize(new_size)
resize(config, new_size) ==
    IF new_size[1] = 0 \/ new_size[2] = 0
    THEN config
    ELSE [width |-> new_size[1], height |-> new_size[2]]

\* mutant of render: a failed frame is dropped without reconfiguring
render_no_recovery(config, inner_size, frame_ok) ==
    IF frame_ok
    THEN [config |-> config, drew |-> TRUE, resized |-> <<>>,
          steps |-> <<"get_current_texture", "submit", "present">>]
    ELSE [config |-> config, drew |-> FALSE, resized |-> <<>>,
          steps |-> <<"get_current_texture">>]

\* mutant of render: after the reconfiguration the frame is requested again
render_retry(config, inner_size, frame_ok) ==
    IF frame_ok
    THEN [config |-> config, drew |-> TRUE, resized |-> <<>>,
          steps |-> <<"get_current_texture", "submit", "present">>]
    ELSE [config |-> resize(config, inner_size), drew |-> TRUE,
          resized |-> <<inner_size>>,
          steps |-> <<"get_current_texture", "resize", "get_current_texture",
                      "submit", "present">>]

\* Renderer::render: what render() does when the surface is configured with
\* `config` and the window reports `inner_size`; frame_ok is whether
\* get_current_texture() returns Ok
render(config, inner_size, frame_ok) ==
    IF frame_ok
    THEN [config |-> config, drew |-> TRUE, resized |-> <<>>,
          steps |-> <<"get_current_texture", "submit", "present">>]
    ELSE [config |-> resize(config, inner_size), drew |-> FALSE,
          resized |-> <<inner_size>>,
          steps |-> <<"get_current_texture", "resize">>]

\* mutant of KeysAfter: a release does not clear the flag
KeysAfter_sticky(keys, physical_key, state) ==
    LET is_pressed == (state = "Pressed")
    IN  CASE physical_key = "KeyW" -> [keys EXCEPT !.w = keys.w \/ is_pressed]
          [] physical_key = "KeyA" -> [keys EXCEPT !.a = keys.a \/ is_pressed]
          [] physical_key = "KeyS" -> [keys EXCEPT !.s = keys.s \/ is_pressed]
          [] physical_key = "KeyD" -> [keys EXCEPT !.d = keys.d \/ is_pressed]
          [] OTHER -> keys

\* KeyboardState after handle_keyboard_input(event)
KeysAfter(keys, physical_key, state) ==
    LET is_pressed == (state = "Pressed")
    IN  CASE physical_key = "KeyW" -> [keys EXCEPT !.w = is_pressed]
          [] physical_key = "KeyA" -> [keys EXCEPT !.a = is_pressed]
          [] physical_key = "KeyS" -> [keys EXCEPT !.s = is_pressed]
          [] physical_key = "KeyD" -> [keys EXCEPT !.d = is_pressed]
          [] OTHER -> keys

\* mutant of write_buffer: the upload is skipped when the matrix is the one
\* the buffer holds
write_buffer_if_changed(buffer, mvp) ==
    IF buffer = mvp
    THEN [buffer |-> buffer, steps |-> <<>>]
    ELSE [buffer |-> mvp, steps |-> <<"write_buffer">>]

\* queue.write_buffer(&self.uniform_buffer, 0, ..): the buffer holds the
\* matrix from offset 0 on
write_buffer(buffer, mvp) == [buffer |-> mvp, steps |-> <<"write_buffer">>]

\* what one dispatch did, for the event `kind`
Effects(kind) ==
    [kind |-> kind,
     size |-> <<0, 0>>,            \* the size a Resized event carries
     resized |-> <<>>,             \* the sizes resize() was called with
     steps |-> <<>>,               \* the steps the handler took, in order
     before |-> [rotation |-> cube_rotation, config |-> surface_config,
                 exiting |-> exiting],
     elapsed |-> 0,                \* the elapsed time the frame update read
     updated |-> FALSE,            \* the rotation update ran
     wrote |-> FALSE,              \* queue.write_buffer was called
     frame_ok |-> FALSE,           \* get_current_texture returned Ok
     drew |-> FALSE]               \* queue.submit and frame.present were called

RendererInit ==
    /\ keys_pressed = KeyboardState_default
    /\ cube_rotation = Vec3_ZERO
    /\ clock = 0
    /\ window_size = InitialSize
    /\ surface_config = [width |-> InitialSize[1], height |-> InitialSize[2]]
    /\ uniform_buffer = Uniforms_new
    /\ exiting = FALSE
    /\ running = TRUE
    /\ frames = 0
    /\ dispatched = [kind |-> "None",
                     size |-> <<0, 0>>,
                     resized |-> <<>>,
                     steps |-> <<>>,
                     before |-> [rotation |-> Vec3_ZERO,
                                 config |-> [width |-> InitialSize[1],
                                             height |-> InitialSize[2]],
                                 exiting |-> FALSE],
                     elapsed |-> 0,
                     updated |-> FALSE,
                     wrote |-> FALSE,
                     frame_ok |-> FALSE,
                     drew |-> FALSE]

\* the monotonic clock advances between two events
Tick ==
    /\ running
    /\ clock + TickMs <= MaxElapsed
    /\ clock' = clock + TickMs
    /\ dispatched' = Effects("Tick")
    /\ UNCHANGED <<keys_pressed, cube_rotation, window_size, surface_config,
                   uniform_buffer, exiting, running, frames>>

\* mutant of CloseRequested: the handler does not call target.exit()
CloseRequested_no_exit ==
    /\ running
    /\ dispatched' = Effects("CloseRequested")
    /\ UNCHANGED <<keys_pressed, cube_rotation, clock, window_size, surface_config,
                   uniform_buffer, exiting, running, frames>>

\* WindowEvent::CloseRequested for this window
CloseRequested ==
    /\ running
    /\ exiting' = TRUE
    /\ dispatched' = [Effects("CloseRequested") EXCEPT !.steps = <<"exit">>]
    /\ UNCHANGED <<keys_pressed, cube_rotation, clock, window_size, surface_config,
                   uniform_buffer, running, frames>>

\* WindowEvent::Resized(physical_size) for this window: the window has the
\* size the event carries
Resized(physical_size) ==
    /\ running
    /\ window_size' = physical_size
    /\ surface_config' = resize(surface_config, physical_size)
    /\ dispatched' = [Effects("Resized") EXCEPT !.size = physical_size,
                                                !.resized = <<physical_size>>,
                                                !.steps = <<"resize">>]
    /\ UNCHANGED <<keys_pressed, cube_rotation, clock, uniform_buffer,
                   exiting, running, frames>>

\* Event::AboutToWait
AboutToWait ==
    /\ running
    /\ dispatched' = [Effects("AboutToWait") EXCEPT !.steps = <<"request_redraw">>]
    /\ UNCHANGED <<keys_pressed, cube_rotation, clock, window_size, surface_config,
                   uniform_buffer, exiting, running, frames>>

\* WindowEvent::KeyboardInput for this window
handle_keyboard_input(physical_key, state) ==
    /\ running
    /\ keys_pressed' = KeysAfter(keys_pressed, physical_key, state)
    /\ dispatched' = Effects("KeyboardInput")
    /\ UNCHANGED <<cube_rotation, clock, window_size, surface_config, uniform_buffer,
                   exiting, running, frames>>

\* any other event, and window events of another window: `_ => {}`
Ignored ==
    /\ running
    /\ dispatched' = Effects("Ignored")
    /\ UNCHANGED <<keys_pressed, cube_rotation, clock, window_size, surface_config,
                   uniform_buffer, exiting, running, frames>>

\* mutant of update_and_render: the frame is requested first, and a frame
\* update whose frame is missing changes and uploads nothing
update_and_render_draw_first(frame_ok) ==
    /\ running
    /\ LET elapsed == clock
           rotation == IF frame_ok
                       THEN AutoRotate(ManualRotation(cube_rotation, keys_pressed),
                                       keys_pressed, elapsed)
                       ELSE cube_rotation
           aspect_ratio == AspectRatio(window_size)
           written == IF frame_ok
                      THEN write_buffer(uniform_buffer, Mvp(rotation, aspect_ratio))
                      ELSE [buffer |-> uniform_buffer, steps |-> <<>>]
           rendered == render(surface_config, window_size, frame_ok)
       IN  /\ cube_rotation' = rotation
           /\ uniform_buffer' = written.buffer
           /\ surface_config' = rendered.config
           /\ dispatched' = [Effects("RedrawRequested") EXCEPT
                                !.elapsed = elapsed, !.updated = frame_ok,
                                !.wrote = (written.steps # <<>>),
                                !.frame_ok = frame_ok, !.drew = rendered.drew,
                                !.resized = rendered.resized,
                                !.steps = (IF frame_ok THEN <<"update_rotation">>
                                           ELSE <<>>)
                                          \o written.steps \o rendered.steps]
    /\ frames' = frames + 1
    /\ UNCHANGED <<keys_pressed, clock, window_size, exiting, running>>

\* mutant of update_and_render: the keyboard state is cleared after the frame
update_and_render_clears_keys(frame_ok) ==
    /\ running
    /\ LET elapsed == clock
           rotation == AutoRotate(ManualRotation(cube_rotation, keys_pressed),
                                  keys_pressed, elapsed)
           aspect_ratio == AspectRatio(window_size)
           written == write_buffer(uniform_buffer, Mvp(rotation, aspect_ratio))
           rendered == render(surface_config, window_size, frame_ok)
       IN  /\ cube_rotation' = rotation
           /\ uniform_buffer' = written.buffer
           /\ surface_config' = rendered.config
           /\ dispatched' = [Effects("RedrawRequested") EXCEPT
                                !.elapsed = elapsed, !.updated = TRUE,
                                !.wrote = (written.steps # <<>>),
                                !.frame_ok = frame_ok, !.drew = rendered.drew,
                                !.resized = rendered.resized,
                                !.steps = <<"update_rotation">> \o written.steps
                                          \o rendered.steps]
    /\ frames' = frames + 1
    /\ keys_pressed' = KeyboardState_default
    /\ UNCHANGED <<clock, window_size, exiting, running>>

\* WindowEvent::RedrawRequested for this window: update_and_render(), which
\* ends in render(); frame_ok is whether get_current_texture() returns Ok
update_and_render(frame_ok) ==
    /\ running
    /\ LET elapsed == clock
           rotation == AutoRotate(ManualRotation(cube_rotation, keys_pressed),
                                  keys_pressed, elapsed)
           aspect_ratio == AspectRatio(window_size)
           written == write_buffer(uniform_buffer, Mvp(rotation, aspect_ratio))
           rendered == render(surface_config, window_size, frame_ok)
       IN  /\ cube_rotation' = rotation
           /\ uniform_buffer' = written.buffer
           /\ surface_config' = rendered.config
           /\ dispatched' = [Effects("RedrawRequested") EXCEPT
                                !.elapsed = elapsed, !.updated = TRUE,
                                !.wrote = (written.steps # <<>>),
                                !.frame_ok = frame_ok, !.drew = rendered.drew,
                                !.resized = rendered.resized,
                                !.steps = <<"update_rotation">> \o written.steps
                                          \o rendered.steps]
    /\ frames' = frames + 1
    /\ UNCHANGED <<keys_pressed, clock, window_size, exiting, running>>

\* event_loop.run() returns once exit was requested: Event::LoopExiting is
\* the last event (`_ => {}`)
LoopExiting ==
    /\ running
    /\ exiting
    /\ running' = FALSE
    /\ dispatched' = Effects("LoopExiting")
    /\ UNCHANGED <<keys_pressed, cube_rotation, clock, window_size, surface_config,
                   uniform_buffer, exiting, frames>>

SceneIdle == UNCHANGED scene_vars

\* ---------------------------------------------------------------- scene
Names == {"A", "B", "a"}

\* Transform::identity()
Transform_identity ==
    [position |-> <<0, 0, 0>>, rotation |-> [axis |-> "none", turns |-> 0],
     scale |-> <<1, 1, 1>>]

Transforms ==
    {Transform_identity,
     [position |-> <<1, 2, 3>>, rotation |-> [axis |-> "y", turns |-> 1],
      scale |-> <<2, 2, 2>>]}

\* rotations by quarter turns about one axis, as the unit quaternion of
\* Quat::from_rotation_x / _y / _z(turns * 90 degrees)
Rotations ==
    {[axis |-> "none", turns |-> 0]}
    \cup [axis : {"x", "y", "z"}, turns : 1..3]

\* the transforms Transform::matrix is applied to
MatrixTransforms ==
    [position : {<<0, 0, 0>>, <<1, 2, 3>>, <<0 - 1, 0, 2>>},
     rotation : Rotations,
     scale : {<<1, 1, 1>>, <<2, 2, 2>>, <<1, 2, 3>>}]

\* model-space points
Points == {<<1, 0, 0>>, <<0, 1, 0>>, <<0, 0, 1>>, <<1, 2, 3>>}

\* cosine and sine of k quarter turns
Cos4(k) == CASE k % 4 = 0 -> 1 [] k % 4 = 2 -> 0 - 1 [] OTHER -> 0
Sin4(k) == CASE k % 4 = 1 -> 1 [] k % 4 = 3 -> 0 - 1 [] OTHER -> 0

\* glam Mat3::from_quat: the three columns of the rotation matrix
quat_to_axes(rotation) ==
    LET c == Cos4(rotation.turns)
        sn == Sin4(rotation.turns)
    IN  CASE rotation.axis = "x" -> << <<1, 0, 0>>, <<0, c, sn>>, <<0, 0 - sn, c>> >>
          [] rotation.axis = "y" -> << <<c, 0, 0 - sn>>, <<0, 1, 0>>, <<sn, 0, c>> >>
          [] rotation.axis = "z" -> << <<c, sn, 0>>, <<0 - sn, c, 0>>, <<0, 0, 1>> >>
          [] OTHER -> << <<1, 0, 0>>, <<0, 1, 0>>, <<0, 0, 1>> >>

\* glam Mat4::from_scale_rotation_translation: the four columns, each
\* rotation axis scaled by its component of `scale`, then the translation
from_scale_rotation_translation(scale, rotation, translation) ==
    LET axes == quat_to_axes(rotation)
        Col(j) == <<axes[j][1] * scale[j], axes[j][2] * scale[j],
                    axes[j][3] * scale[j], 0>>
    IN  <<Col(1), Col(2), Col(3),
          <<translation[1], translation[2], translation[3], 1>> >>

\* mutant of matrix: position and scale are passed in each other's place
matrix_swapped(transform) ==
    from_scale_rotation_translation(transform.position, transform.rotation,
                                    transform.scale)

\* Transform::matrix
matrix(transform) ==
    from_scale_rotation_translation(transform.scale, transform.rotation,
                                    transform.position)

\* glam Mat4::transform_point3: the matrix times the column vector (v, 1)
transform_point3(m, v) ==
    [i \in 1..3 |-> m[1][i] * v[1] + m[2][i] * v[2] + m[3][i] * v[3] + m[4][i]]

\* SceneObject::new
SceneObject_new(name, transform) == [name |-> name, transform |-> transform]

SceneObjects == {SceneObject_new(n, t) : n \in Names, t \in Transforms}

\* Scene::new
Scene_new == <<>>

\* mutant of add_object: an object whose name is present is rejected
add_object_unique(objs, object) ==
    IF \E i \in 1..Len(objs) : objs[i].name = object.name
    THEN objs
    ELSE Append(objs, object)

\* Scene::add_object: self.objects.push(object)
add_object(objs, object) == Append(objs, object)

\* self.objects.iter().find(|obj| obj.name == name), scanning from index i;
\* the result is the index of the object the reference points at, 0 for None
RECURSIVE iter_find(_, _, _)
iter_find(objs, name, i) ==
    IF i > Len(objs) THEN 0
    ELSE IF objs[i].name = name THEN i
    ELSE iter_find(objs, name, i + 1)

\* mutant of get_object: the names are compared ignoring case
get_object_ignore_case(objs, name) ==
    LET Lower(n) == IF n = "A" THEN "a" ELSE IF n = "B" THEN "b" ELSE n
        matches == {i \in 1..Len(objs) : Lower(objs[i].name) = Lower(name)}
    IN  IF matches = {} THEN 0
        ELSE CHOOSE i \in matches : \A j \in matches : i <= j

\* mutant of get_object: the last match (a scan from the end)
get_object_last(objs, name) ==
    IF \E i \in 1..Len(objs) : objs[i].name = name
    THEN CHOOSE i \in 1..Len(objs) :
             /\ objs[i].name = name
             /\ \A j \in (i + 1)..Len(objs) : objs[j].name # name
    ELSE 0

\* Scene::get_object
get_object(objs, name) == iter_find(objs, name, 1)

\* self.objects.iter_mut().find(|obj| obj.name == name), scanning from index i
RECURSIVE iter_mut_find(_, _, _)
iter_mut_find(objs, name, i) ==
    IF i > Len(objs) THEN 0
    ELSE IF objs[i].name = name THEN i
    ELSE iter_mut_find(objs, name, i + 1)

\* mutant of get_object_mut: the last match (a scan from the end)
get_object_mut_last(objs, name) ==
    IF \E i \in 1..Len(objs) : objs[i].name = name
    THEN CHOOSE i \in 1..Len(objs) :
             /\ objs[i].name = name
             /\ \A j \in (i + 1)..Len(objs) : objs[j].name # name
    ELSE 0

\* Scene::get_object_mut
get_object_mut(objs, name) == iter_mut_find(objs, name, 1)

\* no Scene method was called yet; `added` counts the add_object calls
NoCall == [op |-> "none", name |-> "", transform |-> Transform_identity, ret |-> 0,
           before |-> <<>>, added |-> 0]

NoMatrixCall == [called |-> FALSE, transform |-> Transform_identity,
                 point |-> <<0, 0, 0>>, matrix |-> <<>>, image |-> <<0, 0, 0>>]

SceneInit ==
    /\ objects = Scene_new
    /\ scene_call = NoCall
    /\ matrix_call = NoMatrixCall

\* let m = transform.matrix(); m.transform_point3(point)
Matrix(transform, point) ==
    /\ matrix_call' = [called |-> TRUE, transform |-> transform, point |-> point,
                       matrix |-> matrix(transform),
                       image |-> transform_point3(matrix(transform), point)]
    /\ UNCHANGED <<objects, scene_call>>

\* scene.add_object(object)
AddObject(object) ==
    /\ objects' = add_object(objects, object)
    /\ scene_call' = [op |-> "add_object", name |-> object.name,
                      transform |-> object.transform, ret |-> 0, before |-> objects,
                      added |-> scene_call.added + 1]
    /\ UNCHANGED matrix_call

\* scene.get_object(name)
GetObject(name) ==
    /\ objects' = objects
    /\ scene_call' = [op |-> "get_object", name |-> name,
                      transform |-> Transform_identity,
                      ret |-> get_object(objects, name), before |-> objects,
                      added |-> scene_call.added]
    /\ UNCHANGED matrix_call

\* if let Some(obj) = scene.get_object_mut(name) { obj.transform = transform }
GetObjectMut(name, transform) ==
    LET found == get_object_mut(objects, name)
    IN  /\ objects' = IF found = 0 THEN objects
                      ELSE [objects EXCEPT ![found].transform = transform]
        /\ scene_call' = [op |-> "get_object_mut", name |-> name,
                          transform |-> transform, ret |-> found, before |-> objects,
                          added |-> scene_call.added]
        /\ UNCHANGED matrix_call

RendererIdle == UNCHANGED renderer_vars

\* ------------------------------------------------- f32 rotation arithmetic
\* the spacing of the f32 values around a magnitude, in 2^-28 radians: the
\* smallest power of two p with magnitude < 2^24 * p
RECURSIVE Ulp(_, _)
Ulp(magnitude, p) ==
    IF magnitude \div p < 16777216 THEN p ELSE Ulp(magnitude, 2 * p)

\* the f32 value nearest to an exact value, ties to the even mantissa
f32_round(exact) ==
    LET magnitude == IF exact < 0 THEN 0 - exact ELSE exact
        p == Ulp(magnitude, 1)
        q == magnitude \div p
        r == magnitude % p
        n == IF 2 * r > p \/ (2 * r = p /\ q % 2 = 1) THEN q + 1 ELSE q
    IN  IF exact < 0 THEN 0 - n * p ELSE n * p

\* f32 `+=` and `-=`
f32_add(a, b) == f32_round(a + b)
f32_sub(a, b) == f32_round(a - b)

\* Duration::as_secs_f32 of a whole number of seconds, in 2^-28 radians
as_secs_f32(seconds) == seconds * 268435456

\* mutant of update_rotation_f32: the keys of an axis exclude each other
update_rotation_f32_else_if(rotation, keys, elapsed) ==
    LET x == IF keys.w THEN f32_sub(rotation.x, rotation_speed_f32)
             ELSE IF keys.s THEN f32_add(rotation.x, rotation_speed_f32)
             ELSE rotation.x
        y == IF keys.a THEN f32_sub(rotation.y, rotation_speed_f32)
             ELSE IF keys.d THEN f32_add(rotation.y, rotation_speed_f32)
             ELSE rotation.y
    IN  IF ~keys.w /\ ~keys.a /\ ~keys.s /\ ~keys.d
        THEN [rotation EXCEPT !.x = x, !.y = elapsed]
        ELSE [rotation EXCEPT !.x = x, !.y = y]

\* the rotation part of update_and_render, every f32 operation rounded
update_rotation_f32(rotation, keys, elapsed) ==
    LET x1 == IF keys.w THEN f32_sub(rotation.x, rotation_speed_f32) ELSE rotation.x
        x2 == IF keys.s THEN f32_add(x1, rotation_speed_f32) ELSE x1
        y1 == IF keys.a THEN f32_sub(rotation.y, rotation_speed_f32) ELSE rotation.y
        y2 == IF keys.d THEN f32_add(y1, rotation_speed_f32) ELSE y1
    IN  IF ~keys.w /\ ~keys.a /\ ~keys.s /\ ~keys.d
        THEN [rotation EXCEPT !.x = x2, !.y = elapsed]
        ELSE [rotation EXCEPT !.x = x2, !.y = y2]

NoFloatCall == [frames |-> 0, keys |-> KeyboardState_default,
                before |-> Vec3_ZERO, seconds |-> 0]

FloatInit ==
    /\ rotation_f32 = Vec3_ZERO
    /\ float_call = NoFloatCall

\* one frame update with the given keys held, `seconds` after the start
FrameUpdate_f32(keys, seconds) ==
    /\ float_call.frames < MaxFloatFrames
    /\ seconds >= float_call.seconds
    /\ rotation_f32' = update_rotation_f32(rotation_f32, keys, as_secs_f32(seconds))
    /\ float_call' = [frames |-> float_call.frames + 1, keys |-> keys,
                      before |-> rotation_f32, seconds |-> seconds]

FloatIdle == UNCHANGED float_vars

\* ------------------------------------------------------- specifications
Init == RendererInit /\ SceneInit /\ FloatInit

\* the dispatch loop of Renderer::run, every event enabled, explored up to
\* the request to exit: the iteration in which exit was requested holds no
\* further event (ExitSpec explores the events of that iteration)
Next ==
    \/ ~exiting /\ Tick /\ SceneIdle /\ FloatIdle
    \/ ~exiting /\ CloseRequested /\ SceneIdle /\ FloatIdle
    \/ ~exiting /\ \E physical_size \in Sizes : Resized(physical_size) /\ SceneIdle /\ FloatIdle
    \/ ~exiting /\ AboutToWait /\ SceneIdle /\ FloatIdle
    \/ ~exiting /\ \E k \in KeyCodes, st \in ElementStates :
           handle_keyboard_input(k, st) /\ SceneIdle /\ FloatIdle
    \/ ~exiting /\ Ignored /\ SceneIdle /\ FloatIdle
    \/ ~exiting /\ frames < MaxFrames /\ \E frame_ok \in BOOLEAN :
           update_and_render(frame_ok) /\ SceneIdle /\ FloatIdle
    \/ LoopExiting /\ SceneIdle /\ FloatIdle

Spec == Init /\ [][Next]_vars

\* keys are pressed before the first frame update and then held: key events
\* arrive only before the first frame update
HeldNext ==
    \/ Tick /\ SceneIdle /\ FloatIdle
    \/ frames = 0 /\ \E k \in KeyCodes, st \in ElementStates :
           handle_keyboard_input(k, st) /\ SceneIdle /\ FloatIdle
    \/ frames < MaxHeldFrames /\ \E frame_ok \in BOOLEAN :
           update_and_render(frame_ok) /\ SceneIdle /\ FloatIdle

HeldSpec == Init /\ [][HeldNext]_vars

\* the dispatch loop with the iteration in which exit was requested: after
\* target.exit() the event loop still dispatches the events left in the
\* current iteration, then Event::LoopExiting
ExitNext ==
    \/ Tick /\ SceneIdle /\ FloatIdle
    \/ CloseRequested /\ SceneIdle /\ FloatIdle
    \/ \E physical_size \in Sizes : Resized(physical_size) /\ SceneIdle /\ FloatIdle
    \/ AboutToWait /\ SceneIdle /\ FloatIdle
    \/ \E k \in KeyCodes, st \in ElementStates : handle_keyboard_input(k, st) /\ SceneIdle /\ FloatIdle
    \/ Ignored /\ SceneIdle /\ FloatIdle
    \/ frames < MaxExitFrames /\ \E frame_ok \in BOOLEAN :
           update_and_render(frame_ok) /\ SceneIdle /\ FloatIdle
    \/ LoopExiting /\ SceneIdle /\ FloatIdle

ExitSpec == Init /\ [][ExitNext]_vars

\* a program using the Scene
SceneNext ==
    \/ Len(objects) < MaxObjects /\ \E o \in SceneObjects : AddObject(o) /\ RendererIdle /\ FloatIdle
    \/ \E n \in Names : GetObject(n) /\ RendererIdle /\ FloatIdle
    \/ \E n \in Names, t \in Transforms : GetObjectMut(n, t) /\ RendererIdle /\ FloatIdle

SceneSpec == Init /\ [][SceneNext]_vars

\* a program computing the matrices of transforms
MathNext ==
    \E t \in MatrixTransforms, v \in Points : Matrix(t, v) /\ RendererIdle /\ FloatIdle

MathSpec == Init /\ [][MathNext]_vars

\* the frame updates of a run, every combination of held keys, with the f32
\* rounding of each addition
FloatNext ==
    \E keys \in [{"w", "a", "s", "d"} -> BOOLEAN], seconds \in 0..MaxFloatSeconds :
        FrameUpdate_f32(keys, seconds) /\ RendererIdle /\ SceneIdle

FloatSpec == Init /\ [][FloatNext]_vars

\* --------------------------------------------------------------- claims
\* the last step was a frame update: cube_rotation is the rotation after it,
\* dispatched.before.rotation the rotation before it
FrameUpdated == dispatched.kind = "RedrawRequested"

OnlyForward == [w |-> TRUE, a |-> FALSE, s |-> FALSE, d |-> FALSE]
OnlyRight == [w |-> FALSE, a |-> FALSE, s |-> FALSE, d |-> TRUE]
ZeroArea == window_size[1] = 0 \/ window_size[2] = 0

\* C1 (as claimed): a redraw-requested event dispatched while the window's
\* inner width or height is 0 runs no frame update: the rotation state is
\* unchanged, nothing is written to the uniform buffer and nothing is drawn.
C1_ZeroAreaSkipsFrame ==
    (FrameUpdated /\ ZeroArea) =>
        /\ cube_rotation = dispatched.before.rotation
        /\ ~dispatched.updated
        /\ ~dispatched.wrote
        /\ ~dispatched.drew

C3_IdleOverride ==
    FrameUpdated =>
        /\ dispatched.elapsed = clock
        /\ keys_pressed = KeyboardState_default => cube_rotation.y = clock
        /\ keys_pressed # KeyboardState_default =>
               cube_rotation.y = dispatched.before.rotation.y
                                 + (IF keys_pressed.d THEN rotation_speed ELSE 0)
                                 - (IF keys_pressed.a THEN rotation_speed ELSE 0)

\* C3 witness: the first frame update after the release of right, which had
\* accumulated one increment on y: y jumps to the elapsed time
C3_Witness ==
    /\ FrameUpdated
    /\ keys_pressed = KeyboardState_default
    /\ dispatched.before.rotation.y = rotation_speed
    /\ clock > rotation_speed
    /\ cube_rotation.y = clock

\* C4: a frame update with all four flags false leaves x and z as they were.
C4_IdleKeepsXZ ==
    (FrameUpdated /\ keys_pressed = KeyboardState_default) =>
        /\ cube_rotation.x = dispatched.before.rotation.x
        /\ cube_rotation.z = dispatched.before.rotation.z

\* C4 witness: an idle frame update after forward had moved x: x stays, y moves
C4_Witness ==
    /\ FrameUpdated
    /\ keys_pressed = KeyboardState_default
    /\ dispatched.before.rotation.x = 0 - rotation_speed
    /\ cube_rotation.x = 0 - rotation_speed
    /\ cube_rotation.y # dispatched.before.rotation.y

\* the change one held key makes to <<x, y>> in a frame update
KeyContribution(key) ==
    CASE key = "w" -> <<0 - rotation_speed, 0>>
      [] key = "s" -> <<rotation_speed, 0>>
      [] key = "a" -> <<0, 0 - rotation_speed>>
      [] key = "d" -> <<0, rotation_speed>>

RECURSIVE SumContributions(_)
SumContributions(held_keys) ==
    IF held_keys = {} THEN <<0, 0>>
    ELSE LET key == CHOOSE k \in held_keys : TRUE
             rest == SumContributions(held_keys \ {key})
         IN  <<KeyContribution(key)[1] + rest[1], KeyContribution(key)[2] + rest[2]>>

HeldKeys == {k \in {"w", "a", "s", "d"} : keys_pressed[k]}

\* C5: in a frame update with at least one key held, the change of <<x, y>>
\* is the sum over the held keys of forward -> x - s, back -> x + s,
\* left -> y - s, right -> y + s.
C5_KeysAdditive ==
    (FrameUpdated /\ HeldKeys # {}) =>
        /\ cube_rotation.x - dispatched.before.rotation.x = SumContributions(HeldKeys)[1]
        /\ cube_rotation.y - dispatched.before.rotation.y = SumContributions(HeldKeys)[2]

\* C5 witness: forward and left held in one frame update: x and y both drop by s
C5_Witness ==
    /\ FrameUpdated
    /\ HeldKeys = {"w", "a"}
    /\ cube_rotation.x = dispatched.before.rotation.x - rotation_speed
    /\ cube_rotation.y = dispatched.before.rotation.y - rotation_speed

\* C6: a call of resize with width 0 or height 0, from a Resized event or from
\* render's recovery, leaves the surface configuration as it was; a call with
\* both non-zero makes the configuration that size; without a call the
\* configuration does not change.
C6_ResizeDegenerateNoOp ==
    /\ dispatched.resized = <<>> => surface_config = dispatched.before.config
    /\ \A i \in 1..Len(dispatched.resized) :
           LET new_size == dispatched.resized[i]
           IN  IF new_size[1] = 0 \/ new_size[2] = 0
               THEN surface_config = dispatched.before.config
               ELSE surface_config = [width |-> new_size[1], height |-> new_size[2]]

\* C6 witness: render found no frame while the window had height 0 and called
\* resize with that size, after the surface had been configured with 640 x 640
C6_Witness ==
    /\ FrameUpdated
    /\ ~dispatched.frame_ok
    /\ dispatched.resized = << <<800, 0>> >>
    /\ surface_config = [width |-> 640, height |-> 640]

\* C7 (as claimed): the aspect ratio width / height is never evaluated with
\* height = 0: no matrix written to the uniform buffer was composed with the
\* quotient of a division by zero.
C7_AspectGuarded ==
    /\ FrameUpdated => window_size[2] # 0
    /\ ~uniform_buffer.identity => uniform_buffer.aspect.den # 0

\* C8: get_object and get_object_mut return the object at the lowest index
\* whose name equals the given name exactly, and None only when there is none.
C8_FirstMatchWins ==
    scene_call.op \in {"get_object", "get_object_mut"} =>
        LET objs == scene_call.before
            found == scene_call.ret
        IN  /\ found \in 0..Len(objs)
            /\ found # 0 => objs[found].name = scene_call.name
            /\ \A j \in 1..Len(objs) :
                   objs[j].name = scene_call.name => (found # 0 /\ found <= j)

SceneNames == [i \in 1..Len(objects) |-> objects[i].name]

\* C8 witness: objects named A, B, A were added in that order and
\* get_object("A") returned the one at index 1 (the first)
C8_Witness ==
    /\ SceneNames = <<"A", "B", "A">>
    /\ scene_call.op = "get_object"
    /\ scene_call.name = "A"
    /\ scene_call.ret = 1

\* C9: after the transform of the object get_object_mut(name) returned was
\* set, get_object(name) returns an object with that transform, and the other
\* objects, the number of objects and their order are as before.
C9_MutationVisibleAndLocal ==
    (scene_call.op = "get_object_mut" /\ scene_call.ret # 0) =>
        LET seen == get_object(objects, scene_call.name)
        IN  /\ seen # 0
            /\ objects[seen].transform = scene_call.transform
            /\ Len(objects) = Len(scene_call.before)
            /\ \A i \in 1..Len(objects) :
                   /\ objects[i].name = scene_call.before[i].name
                   /\ i # scene_call.ret => objects[i] = scene_call.before[i]

\* C9 witness: in a scene of objects named A, B, A the transform of "A" was
\* changed through get_object_mut: the first A carries it, the later A does not
C9_Witness ==
    /\ SceneNames = <<"A", "B", "A">>
    /\ scene_call.op = "get_object_mut"
    /\ scene_call.name = "A"
    /\ scene_call.before[1].transform # scene_call.transform
    /\ objects[1].transform = scene_call.transform
    /\ objects[3].transform # scene_call.transform

\* C10: the scene starts empty; add_object(o) yields the objects before it
\* with o at the end, also when o's name is present; after n calls the scene
\* holds n objects.
C10_AddAppends ==
    /\ scene_call.op = "none" => objects = <<>>
    /\ Len(objects) = scene_call.added
    /\ scene_call.op = "add_object" =>
           /\ Len(objects) = Len(scene_call.before) + 1
           /\ \A i \in 1..Len(scene_call.before) : objects[i] = scene_call.before[i]
           /\ objects[Len(objects)] =
                  [name |-> scene_call.name, transform |-> scene_call.transform]

\* C10 witness: the third add_object added an object whose name was present
C10_Witness ==
    /\ scene_call.op = "add_object"
    /\ scene_call.added = 3
    /\ Len(objects) = 3
    /\ \E i \in 1..Len(scene_call.before) : scene_call.before[i].name = scene_call.name

\* C11: when no object carries the name exactly, get_object and
\* get_object_mut return None (0) and the scene is as before the call.
C11_AbsentNameIsNone ==
    (/\ scene_call.op \in {"get_object", "get_object_mut"}
     /\ \A i \in 1..Len(scene_call.before) : scene_call.before[i].name # scene_call.name)
    => /\ scene_call.ret = 0
       /\ objects = scene_call.before

\* C11 witness: get_object("a") on a scene that holds "A" and "B" but no "a"
C11_Witness ==
    /\ SceneNames = <<"A", "B">>
    /\ scene_call.op = "get_object"
    /\ scene_call.name = "a"
    /\ scene_call.ret = 0

\* one quarter turn of the point v about an axis
QuarterTurn(axis, v) ==
    CASE axis = "x" -> <<v[1], 0 - v[3], v[2]>>
      [] axis = "y" -> <<v[3], v[2], 0 - v[1]>>
      [] axis = "z" -> <<0 - v[2], v[1], v[3]>>
      [] OTHER -> v

RECURSIVE Turned(_, _, _)
Turned(axis, turns, v) ==
    IF turns = 0 THEN v ELSE Turned(axis, turns - 1, QuarterTurn(axis, v))

\* position + R(scale * v)
ScaleRotateTranslate(t, v) ==
    LET scaled == <<t.scale[1] * v[1], t.scale[2] * v[2], t.scale[3] * v[3]>>
        turned == Turned(t.rotation.axis, t.rotation.turns, scaled)
    IN  [i \in 1..3 |-> t.position[i] + turned[i]]

Mat4_IDENTITY == <<<<1, 0, 0, 0>>, <<0, 1, 0, 0>>, <<0, 0, 1, 0>>, <<0, 0, 0, 1>>>>

\* C12: Transform::matrix maps a point v to position + R(scale * v): scale,
\* then rotation, then translation; the matrix of Transform::identity() is
\* the identity matrix; position (1,2,3), 90 degrees about Y and scale
\* (2,2,2) map (1,0,0) to (1,2,1).
C12_ScaleRotateTranslate ==
    matrix_call.called =>
        /\ matrix_call.image = ScaleRotateTranslate(matrix_call.transform, matrix_call.point)
        /\ matrix_call.transform = Transform_identity =>
               matrix_call.matrix = Mat4_IDENTITY
        /\ (/\ matrix_call.transform =
                   [position |-> <<1, 2, 3>>, rotation |-> [axis |-> "y", turns |-> 1],
                    scale |-> <<2, 2, 2>>]
            /\ matrix_call.point = <<1, 0, 0>>)
           => matrix_call.image = <<1, 2, 1>>

\* C12 witness: the matrix of position (1,2,3), 90 degrees about Y, scale
\* (2,2,2) was applied to (1,0,0) and gave (1,2,1)
C12_Witness ==
    /\ matrix_call.called
    /\ matrix_call.transform.position = <<1, 2, 3>>
    /\ matrix_call.transform.rotation = [axis |-> "y", turns |-> 1]
    /\ matrix_call.transform.scale = <<2, 2, 2>>
    /\ matrix_call.point = <<1, 0, 0>>
    /\ matrix_call.image = <<1, 2, 1>>

\* the key a flag of KeyboardState is bound to
BoundKey(flag) ==
    CASE flag = "w" -> "KeyW" [] flag = "a" -> "KeyA"
      [] flag = "s" -> "KeyS" [] flag = "d" -> "KeyD"

\* C13: the four flags are false initially; a key-input event sets the flag
\* of its key to "the event is a press" and leaves the other flags as they
\* were, so each flag is true exactly when the last event of its key was a
\* press; an event of any other key leaves all four as they were.
C13_FlagsTrackKeys ==
    /\ keys_pressed = KeyboardState_default
    /\ [][\A k \in KeyCodes, st \in ElementStates :
            handle_keyboard_input(k, st) =>
                \A flag \in {"w", "a", "s", "d"} :
                    keys_pressed'[flag] = IF BoundKey(flag) = k
                                          THEN (st = "Pressed")
                                          ELSE keys_pressed[flag]]_vars

\* C13 witness: after key events forward and right are down, left and back up
C13_Witness ==
    /\ dispatched.kind = "KeyboardInput"
    /\ keys_pressed = [w |-> TRUE, a |-> FALSE, s |-> FALSE, d |-> TRUE]

\* C14: when the surface yields no frame, render calls resize with the
\* window's inner size, nothing is submitted or presented, and the loop keeps
\* running; a redraw whose frame is there is submitted and presented.
C14_FrameFailureRecovered ==
    FrameUpdated =>
        /\ ~dispatched.frame_ok =>
               /\ dispatched.resized = <<window_size>>
               /\ surface_config = IF ZeroArea THEN dispatched.before.config
                                   ELSE [width |-> window_size[1],
                                         height |-> window_size[2]]
               /\ ~dispatched.drew
               /\ \A i \in 1..Len(dispatched.steps) :
                      dispatched.steps[i] \notin {"submit", "present"}
               /\ running
               /\ exiting = dispatched.before.exiting
        /\ dispatched.frame_ok =>
               /\ dispatched.drew
               /\ dispatched.resized = <<>>
               /\ \E i \in 1..Len(dispatched.steps) : dispatched.steps[i] = "present"

\* C14 witness: a redraw found no frame while the window was 640 x 640: the
\* surface was reconfigured with that size, nothing was drawn, the loop runs
C14_Witness ==
    /\ FrameUpdated
    /\ ~dispatched.frame_ok
    /\ dispatched.resized = << <<640, 640>> >>
    /\ ~dispatched.drew
    /\ running /\ ~exiting

StepCount(step) ==
    Cardinality({i \in 1..Len(dispatched.steps) : dispatched.steps[i] = step})

StepIndex(step) == CHOOSE i \in 1..Len(dispatched.steps) : dispatched.steps[i] = step

\* C16: every frame update writes the matrix built from the rotation after
\* the update and the window's aspect ratio to the uniform buffer, once and
\* before the frame is requested, whether or not the rotation changed and
\* whether or not the surface yields a frame.
C16_PublishUnconditional ==
    FrameUpdated =>
        /\ dispatched.wrote
        /\ StepCount("write_buffer") = 1
        /\ StepIndex("write_buffer") < StepIndex("get_current_texture")
        /\ ~uniform_buffer.identity
        /\ uniform_buffer.rotation = cube_rotation
        /\ uniform_buffer.aspect.num * window_size[2]
               = uniform_buffer.aspect.den * window_size[1]

\* C16 witness: the second frame update left the rotation as it was and the
\* surface yielded no frame: the matrix was written all the same
C16_Witness ==
    /\ FrameUpdated
    /\ frames = 2
    /\ cube_rotation = dispatched.before.rotation
    /\ ~dispatched.frame_ok
    /\ dispatched.wrote

\* C17: the dispatch of a redraw-requested event makes one rotation update
\* and then one render attempt; a submission happens only there, after the
\* update; no other event updates the rotation or attempts a render.
C17_UpdateThenRender ==
    /\ FrameUpdated =>
           /\ dispatched.updated
           /\ StepCount("update_rotation") = 1
           /\ StepCount("get_current_texture") = 1
           /\ StepIndex("update_rotation") < StepIndex("get_current_texture")
           /\ dispatched.drew <=> StepCount("submit") = 1
           /\ dispatched.drew =>
                  StepIndex("get_current_texture") < StepIndex("submit")
    /\ ~FrameUpdated =>
           /\ ~dispatched.updated
           /\ ~dispatched.drew
           /\ StepCount("update_rotation") = 0
           /\ StepCount("get_current_texture") = 0
           /\ StepCount("submit") = 0

\* C17 witness: the second redraw-requested event updated, uploaded, got the
\* frame, submitted and presented, in that order
C17_Witness ==
    /\ FrameUpdated
    /\ frames = 2
    /\ dispatched.steps = <<"update_rotation", "write_buffer", "get_current_texture",
                            "submit", "present">>

\* C18: a step that changes a keyboard flag is the handling of a key-input
\* event: the frame update, render, resize and the close handler leave the
\* four flags as they are.
C18_OnlyKeyInputWritesFlags ==
    [][keys_pressed' # keys_pressed =>
           \E k \in KeyCodes, st \in ElementStates : handle_keyboard_input(k, st)]_vars

\* C18 witness: forward stayed down over two frame updates (x dropped twice)
\* and a resize to 640 x 640
C18_Witness ==
    /\ dispatched.kind = "Resized"
    /\ surface_config = [width |-> 640, height |-> 640]
    /\ frames = 2
    /\ keys_pressed = OnlyForward
    /\ cube_rotation.x = 0 - 2 * rotation_speed

\* C19: the rotation is (0, 0, 0) at startup; a step that is no frame update
\* leaves it as it is; a frame update adds the increments of the held keys to
\* x without wrapping and, when idle, sets y to the elapsed time itself, also
\* beyond 2 pi (6283 milliradians).
C19_RotationLifecycle ==
    /\ dispatched.kind = "None" => cube_rotation = Vec3_ZERO
    /\ ~FrameUpdated => cube_rotation = dispatched.before.rotation
    /\ FrameUpdated =>
           /\ cube_rotation.x = dispatched.before.rotation.x
                                + (IF keys_pressed.s THEN rotation_speed ELSE 0)
                                - (IF keys_pressed.w THEN rotation_speed ELSE 0)
           /\ keys_pressed = KeyboardState_default => cube_rotation.y = dispatched.elapsed
           /\ dispatched.elapsed = clock

\* C19 witness: an idle frame update 7 seconds after the start: y is above 2 pi
C19_Witness ==
    /\ FrameUpdated
    /\ keys_pressed = KeyboardState_default
    /\ clock > 6283
    /\ cube_rotation.y = clock

\* C20: the z angle is 0 in every state, and so is the z angle of every
\* matrix in the uniform buffer.
C20_ZIsZero ==
    /\ cube_rotation.z = 0
    /\ uniform_buffer.rotation.z = 0

\* C20 witness: two frame updates moved x and y; z is 0
C20_Witness ==
    /\ FrameUpdated
    /\ frames = 2
    /\ cube_rotation.x # 0
    /\ cube_rotation.y # 0
    /\ cube_rotation.z = 0
    /\ uniform_buffer.rotation = cube_rotation

\* C21: a frame update whose draw is skipped still applies the rotation
\* update and the upload, once; so with only forward (or only right) held
\* over N redraw events x (or y) has changed by N increments, whichever of
\* the N draws were skipped.
C21_SkippedDrawAdvances ==
    /\ (FrameUpdated /\ ~dispatched.drew) =>
           /\ dispatched.updated
           /\ dispatched.wrote
           /\ StepCount("update_rotation") = 1
           /\ StepCount("write_buffer") = 1
           /\ uniform_buffer.rotation = cube_rotation
           /\ cube_rotation.x - dispatched.before.rotation.x = SumContributions(HeldKeys)[1]
           /\ HeldKeys # {} =>
                  cube_rotation.y - dispatched.before.rotation.y
                      = SumContributions(HeldKeys)[2]
           /\ HeldKeys = {} => cube_rotation.y = dispatched.elapsed
    /\ (frames > 0 /\ keys_pressed = OnlyForward) =>
           cube_rotation.x = 0 - frames * rotation_speed
    /\ (frames > 0 /\ keys_pressed = OnlyRight) =>
           cube_rotation.y = frames * rotation_speed

\* C21 witness: forward held over five redraw events, the draw of the fifth
\* skipped: x has dropped by five increments and the matrix was uploaded
C21_Witness ==
    /\ FrameUpdated
    /\ ~dispatched.frame_ok
    /\ ~dispatched.drew
    /\ keys_pressed = OnlyForward
    /\ frames = 5
    /\ cube_rotation.x = 0 - 5 * rotation_speed
    /\ uniform_buffer.rotation = cube_rotation

Abs(v) == IF v < 0 THEN 0 - v ELSE v

ForwardAndBack == [w |-> TRUE, a |-> FALSE, s |-> TRUE, d |-> FALSE]
LeftAndRight == [w |-> FALSE, a |-> TRUE, s |-> FALSE, d |-> TRUE]

====
